---- MODULE Spec2Model ----
(***************************************************************************)
(* Model of the egui + wgpu + winit example (src/src/main.rs).             *)
(*                                                                         *)
(* The state is what the closure handed to event_loop.run captures and     *)
(* mutates: the swap-chain descriptor, the swap chain, the egui platform,  *)
(* the window, and the control-flow value it writes through the            *)
(* control_flow reference.  One action models the whole handling of one    *)
(* event.  `calls` is the list of calls the closure made, in program       *)
(* order, while handling the last event.                                   *)
(***************************************************************************)
EXTENDS Integers, Sequences, FiniteSets

VARIABLES sc_desc, swap_chain, platform, window, control_flow, elapsed,
          event, calls

vars == <<sc_desc, swap_chain, platform, window, control_flow, elapsed,
          event, calls>>

----------------------------------------------------------------------------
(* Program constants.                                                      *)

INITIAL_WIDTH == 1920
INITIAL_HEIGHT == 1080
OUTPUT_FORMAT == "Bgra8Unorm"

(* Bounds of the model.                                                    *)

MaxDim == 2      \* window dimensions other than the requested ones: 0..MaxDim
MaxTime == 2     \* readings of start_time.elapsed(): 0..MaxTime
MaxJobs == 1     \* distinct paint-job lists egui can return: 0..MaxJobs

Widths == (0..MaxDim) \cup {INITIAL_WIDTH}
Heights == (0..MaxDim) \cup {INITIAL_HEIGHT}
PaintJobs == 0..MaxJobs

(* Outcomes of swap_chain.get_current_frame(): a frame or an error.        *)
FrameResults == {"Ok", "Err"}

----------------------------------------------------------------------------
(* Events delivered to the closure.  All events are records of one shape:  *)
(* kind is the winit::event::Event variant, wkind the WindowEvent variant  *)
(* (or "-"), width and height the payload of Resized (or 0).               *)

Ev(kind, wkind, w, h) == [kind |-> kind, wkind |-> wkind, width |-> w, height |-> h]

NoEvent == Ev("-", "-", 0, 0)
RedrawRequestedEv == Ev("RedrawRequested", "-", 0, 0)
MainEventsClearedEv == Ev("MainEventsCleared", "-", 0, 0)
ResizedEv(w, h) == Ev("WindowEvent", "Resized", w, h)
CloseRequestedEv == Ev("WindowEvent", "CloseRequested", 0, 0)
OtherWindowEvents == {Ev("WindowEvent", k, 0, 0) : k \in {"Focused", "CursorMoved"}}
OtherEvents == {Ev(k, "-", 0, 0) : k \in {"NewEvents", "DeviceEvent", "RedrawEventsCleared"}}

(* One entry of `calls`: the call and the arguments that matter.           *)
Call(op) == [op |-> op, ev |-> NoEvent, res |-> "-", t |-> 0, jobs |-> 0,
             width |-> 0, height |-> 0, n |-> 0]

Ops(cs) == [i \in 1..Len(cs) |-> cs[i].op]
Count(cs, op) == Cardinality({i \in 1..Len(cs) : cs[i].op = op})
Made(cs, op) == \E i \in 1..Len(cs) : cs[i].op = op

----------------------------------------------------------------------------
(* Start-up, main.rs lines 52-75.                                          *)

\* device.create_swap_chain(&surface, &desc): the new swap chain has the
\* configuration of the descriptor and no frame acquired from it.
create_swap_chain(desc) == [config |-> desc, acquired |-> 0]

InitialDesc(size) ==
    [usage |-> "OUTPUT_ATTACHMENT", format |-> OUTPUT_FORMAT,
     width |-> size.width, height |-> size.height, present_mode |-> "Fifo"]

Init ==
    \E w \in Widths \ {0}, h \in Heights \ {0} :
        /\ window = [inner_size |-> [width |-> w, height |-> h],
                     redraw_requested |-> FALSE]
        /\ sc_desc = InitialDesc([width |-> w, height |-> h])
        /\ swap_chain = create_swap_chain(InitialDesc([width |-> w, height |-> h]))
        /\ platform = [last_event |-> NoEvent, time |-> 0, in_frame |-> FALSE]
        /\ control_flow = "Poll"
        /\ elapsed = 0
        /\ event = NoEvent
        /\ calls = <<>>

----------------------------------------------------------------------------
(* The closure's state while it handles one event: the captured variables  *)
(* and the calls made so far.                                              *)

Captured == [sc_desc |-> sc_desc, swap_chain |-> swap_chain, platform |-> platform,
             window |-> window, control_flow |-> control_flow, log |-> <<>>]

\* let output_frame = swap_chain.get_current_frame(): on Ok the caller holds
\* a frame of the swap chain until the frame is dropped.
get_current_frame(sc, res) ==
    IF res = "Ok" THEN [sc EXCEPT !.acquired = @ + 1] ELSE sc

\* Variant: the frame is kept (stored or forgotten) instead of dropped.
drop_output_frame_Leaked(sc) == sc

\* output_frame goes out of scope at the end of the RedrawRequested arm:
\* dropping a SwapChainFrame presents it and gives it back.
drop_output_frame(sc) == [sc EXCEPT !.acquired = @ - 1]

\* Variant: the render target size is the requested window size.
ExecuteTarget_Initial(desc) == [width |-> INITIAL_WIDTH, height |-> INITIAL_HEIGHT]

\* The target size handed to egui_rpass.execute.
ExecuteTarget(desc) == [width |-> desc.width, height |-> desc.height]

\* Effect of one call on the closure's state; the call is logged with the
\* arguments it was made with.
Exec(st, c) ==
    LET logged(k) == [st EXCEPT !.log = Append(@, k)] IN
    CASE c.op = "platform.handle_event" ->
           [logged(c) EXCEPT !.platform.last_event = c.ev]
      [] c.op = "platform.update_time" ->
           [logged(c) EXCEPT !.platform.time = c.t]
      [] c.op = "swap_chain.get_current_frame" ->
           [logged(c) EXCEPT !.swap_chain = get_current_frame(@, c.res)]
      [] c.op = "platform.begin_frame" ->
           [logged(c) EXCEPT !.platform.in_frame = TRUE]
      [] c.op = "platform.end_frame" ->
           [logged(c) EXCEPT !.platform.in_frame = FALSE]
      [] c.op = "egui_rpass.execute" ->
           logged([c EXCEPT !.width = ExecuteTarget(st.sc_desc).width,
                            !.height = ExecuteTarget(st.sc_desc).height])
      [] c.op = "control_flow =" ->
           [logged(c) EXCEPT !.control_flow = c.res]
      [] c.op = "drop output_frame" ->
           [logged(c) EXCEPT !.swap_chain = drop_output_frame(@)]
      [] c.op = "window.request_redraw" ->
           [logged(c) EXCEPT !.window.redraw_requested = TRUE]
      [] c.op = "sc_desc.width =" ->
           [logged(c) EXCEPT !.sc_desc.width = c.width]
      [] c.op = "sc_desc.height =" ->
           [logged(c) EXCEPT !.sc_desc.height = c.height]
      [] c.op = "device.create_swap_chain" ->
           [logged([c EXCEPT !.width = st.sc_desc.width,
                             !.height = st.sc_desc.height,
                             !.n = st.swap_chain.acquired])
              EXCEPT !.swap_chain = create_swap_chain(st.sc_desc)]
      [] OTHER -> logged(c)

RECURSIVE Run(_, _)
Run(st, prog) == IF prog = <<>> THEN st ELSE Run(Exec(st, Head(prog)), Tail(prog))

----------------------------------------------------------------------------
(* The closure, main.rs lines 76-139, as the calls it makes for an event.  *)

\* platform.handle_event(&event), before the match.
Forward(ev) == <<[Call("platform.handle_event") EXCEPT !.ev = ev]>>

\* RedrawRequested, up to the result of get_current_frame.
Acquire(t, res) ==
    << [Call("platform.update_time") EXCEPT !.t = t],
       [Call("swap_chain.get_current_frame") EXCEPT !.res = res] >>

\* Variant: a failed acquisition recreates the swap chain.
Dropped_Recreate == << Call("eprintln"), Call("device.create_swap_chain") >>

\* Variant: a failed acquisition still sets the control flow to Poll.
Dropped_Poll == << Call("eprintln"), [Call("control_flow =") EXCEPT !.res = "Poll"] >>

\* Err(e) => { eprintln!(...); return; }
Dropped == << Call("eprintln") >>

\* Variant: the buffers are uploaded before the texture.
Render_BuffersFirst(jobs) ==
    << Call("platform.begin_frame"),
       Call("DemoApp::ui"),
       [Call("platform.end_frame") EXCEPT !.jobs = jobs],
       Call("device.create_command_encoder"),
       [Call("egui_rpass.update_buffers") EXCEPT !.jobs = jobs],
       Call("egui_rpass.update_texture"),
       [Call("egui_rpass.execute") EXCEPT !.jobs = jobs],
       Call("queue.submit"),
       [Call("control_flow =") EXCEPT !.res = "Poll"],
       Call("drop output_frame") >>

\* RedrawRequested after a frame was acquired: jobs is what end_frame returns.
Render(jobs) ==
    << Call("platform.begin_frame"),
       Call("DemoApp::ui"),
       [Call("platform.end_frame") EXCEPT !.jobs = jobs],
       Call("device.create_command_encoder"),
       Call("egui_rpass.update_texture"),
       [Call("egui_rpass.update_buffers") EXCEPT !.jobs = jobs],
       [Call("egui_rpass.execute") EXCEPT !.jobs = jobs],
       Call("queue.submit"),
       [Call("control_flow =") EXCEPT !.res = "Poll"],
       Call("drop output_frame") >>

OnRedrawRequested(t, res, jobs) ==
    Acquire(t, res) \o (IF res = "Ok" THEN Render(jobs) ELSE Dropped)

\* Variant: MainEventsCleared does not ask for a redraw.
OnMainEventsCleared_NoRedraw == << [Call("control_flow =") EXCEPT !.res = "Wait"] >>

OnMainEventsCleared ==
    << Call("window.request_redraw"),
       [Call("control_flow =") EXCEPT !.res = "Wait"] >>

\* Variant: the swap chain is recreated before the height is stored.
OnResized_CreateEarly(size) ==
    << [Call("sc_desc.width =") EXCEPT !.width = size.width],
       Call("device.create_swap_chain"),
       [Call("sc_desc.height =") EXCEPT !.height = size.height] >>

OnResized(size) ==
    << [Call("sc_desc.width =") EXCEPT !.width = size.width],
       [Call("sc_desc.height =") EXCEPT !.height = size.height],
       Call("device.create_swap_chain") >>

\* Variant: CloseRequested only makes the loop wait.
OnCloseRequested_Wait == << [Call("control_flow =") EXCEPT !.res = "Wait"] >>

OnCloseRequested == << [Call("control_flow =") EXCEPT !.res = "Exit"] >>

\* The match on the event; t, res and jobs are read only by RedrawRequested.
Match(ev, t, res, jobs) ==
    CASE ev.kind = "RedrawRequested" -> OnRedrawRequested(t, res, jobs)
      [] ev.kind = "MainEventsCleared" -> OnMainEventsCleared
      [] ev.kind = "WindowEvent" /\ ev.wkind = "Resized" ->
           OnResized([width |-> ev.width, height |-> ev.height])
      [] ev.kind = "WindowEvent" /\ ev.wkind = "CloseRequested" -> OnCloseRequested
      [] OTHER -> <<>>

\* Variant: the event is forwarded to the platform after the match.
Closure_ForwardLast(ev, t, res, jobs) == Match(ev, t, res, jobs) \o Forward(ev)

Closure(ev, t, res, jobs) == Forward(ev) \o Match(ev, t, res, jobs)

\* One call of the closure by the event loop; win is the window as the
\* event is delivered.
Handle(win, ev, t, res, jobs) ==
    LET st == Run([Captured EXCEPT !.window = win], Closure(ev, t, res, jobs)) IN
    /\ event' = ev
    /\ calls' = st.log
    /\ sc_desc' = st.sc_desc
    /\ swap_chain' = st.swap_chain
    /\ platform' = st.platform
    /\ control_flow' = st.control_flow
    /\ window' = st.window

----------------------------------------------------------------------------
(* The event loop delivers events; one action per kind of event.           *)

\* The window system delivers RedrawRequested (asked for or not); the
\* pending request is consumed.  start_time.elapsed() is read once.
RedrawRequested ==
    \E t \in elapsed..MaxTime, res \in FrameResults, jobs \in PaintJobs :
        /\ elapsed' = t
        /\ Handle([window EXCEPT !.redraw_requested = FALSE],
                  RedrawRequestedEv, t, res, jobs)

MainEventsCleared ==
    /\ Handle(window, MainEventsClearedEv, 0, "-", 0)
    /\ UNCHANGED elapsed

\* The window got a new inner size and the event reports it.
Resized ==
    \E w \in Widths, h \in Heights :
        /\ Handle([window EXCEPT !.inner_size = [width |-> w, height |-> h]],
                  ResizedEv(w, h), 0, "-", 0)
        /\ UNCHANGED elapsed

CloseRequested ==
    /\ Handle(window, CloseRequestedEv, 0, "-", 0)
    /\ UNCHANGED elapsed

OtherWindowEvent ==
    \E ev \in OtherWindowEvents :
        /\ Handle(window, ev, 0, "-", 0)
        /\ UNCHANGED elapsed

OtherEvent ==
    \E ev \in OtherEvents :
        /\ Handle(window, ev, 0, "-", 0)
        /\ UNCHANGED elapsed

Next ==
    \/ RedrawRequested
    \/ MainEventsCleared
    \/ Resized
    \/ CloseRequested
    \/ OtherWindowEvent
    \/ OtherEvent

Spec == Init /\ [][Next]_vars

\* The window system delivers a RedrawRequested for each request made with
\* window.request_redraw(): a pending request does not stay pending for ever.
\* Only the delivery of RedrawRequested clears the request, so this is weak
\* fairness of (window.redraw_requested /\ RedrawRequested), which is
\* enabled exactly when a request is pending.
FairSpec == Spec /\ [](window.redraw_requested => <>(~window.redraw_requested))

----------------------------------------------------------------------------
(* What the last handling did, read from `calls`.                          *)

Handled == event # NoEvent
IsRedraw == event.kind = "RedrawRequested"
IsResized == event.kind = "WindowEvent" /\ event.wkind = "Resized"
IsClose == event.kind = "WindowEvent" /\ event.wkind = "CloseRequested"
IsMainEventsCleared == event.kind = "MainEventsCleared"

Acquired(r) ==
    \E i \in 1..Len(calls) :
        calls[i].op = "swap_chain.get_current_frame" /\ calls[i].res = r
Rendered == IsRedraw /\ Acquired("Ok")
DroppedFrame == IsRedraw /\ Acquired("Err")

\* Position of the first call of op in calls (0 when there is none).
Pos(op) ==
    IF Made(calls, op)
    THEN CHOOSE i \in 1..Len(calls) :
             calls[i].op = op /\ \A j \in 1..(i - 1) : calls[j].op # op
    ELSE 0

FrameSteps ==
    << "platform.update_time", "swap_chain.get_current_frame",
       "platform.begin_frame", "DemoApp::ui", "platform.end_frame",
       "device.create_command_encoder", "egui_rpass.update_texture",
       "egui_rpass.update_buffers", "egui_rpass.execute", "queue.submit" >>
IsFrameStep(op) == \E i \in 1..Len(FrameSteps) : FrameSteps[i] = op
IsBeginOrEnd(op) == op \in {"platform.begin_frame", "platform.end_frame"}

----------------------------------------------------------------------------
(* Claims.                                                                 *)

\* C1: every event handed to the closure, whatever its kind, is passed to
\* platform.handle_event exactly once, and that call is the first thing the
\* closure does for the event.
C1_ForwardedOnceAndFirst ==
    Handled =>
        /\ Len(calls) >= 1
        /\ calls[1].op = "platform.handle_event"
        /\ calls[1].ev = event
        /\ Count(calls, "platform.handle_event") = 1
        /\ platform.last_event = event

\* An event the match ignores was forwarded to the platform and nothing else
\* was done for it.
C1_Witness ==
    /\ event.kind = "DeviceEvent"
    /\ Len(calls) = 1
    /\ platform.last_event = event

\* C2: after a Resized(size) the descriptor has the size of the event and
\* the swap chain was recreated from that descriptor; between two handlings
\* the swap chain's configuration is the current descriptor.
C2_SwapChainMatchesDesc ==
    /\ swap_chain.config = sc_desc
    /\ IsResized =>
        /\ sc_desc.width = event.width
        /\ sc_desc.height = event.height
        /\ calls[Len(calls)].op = "device.create_swap_chain"
        /\ calls[Len(calls)].width = event.width
        /\ calls[Len(calls)].height = event.height

C2_Witness ==
    /\ IsResized
    /\ event.width = 1 /\ event.height = 2
    /\ swap_chain.config.width = 1 /\ swap_chain.config.height = 2

\* C3: a RedrawRequested whose frame is acquired makes the ten frame steps
\* once each in the order of FrameSteps; update_buffers and execute get the
\* paint jobs that end_frame returned; begin_frame is always followed by
\* end_frame and no frame is left open.
C3_FrameStepsInOrder ==
    /\ Rendered =>
        /\ SelectSeq(Ops(calls), IsFrameStep) = FrameSteps
        /\ calls[Pos("egui_rpass.update_buffers")].jobs = calls[Pos("platform.end_frame")].jobs
        /\ calls[Pos("egui_rpass.execute")].jobs = calls[Pos("platform.end_frame")].jobs
    /\ SelectSeq(Ops(calls), IsBeginOrEnd)
           \in {<<>>, <<"platform.begin_frame", "platform.end_frame">>}
    /\ ~platform.in_frame

C3_Witness ==
    /\ Rendered
    /\ calls[Pos("platform.end_frame")].jobs = 1
    /\ calls[Pos("egui_rpass.execute")].jobs = 1

\* C4: an acquired frame is given back (presented) in the handling that
\* acquired it, after queue.submit; no frame is held between handlings and
\* no swap chain is replaced while a frame of it is held.
C4_FrameReleased ==
    /\ swap_chain.acquired = 0
    /\ Rendered =>
        /\ Count(calls, "swap_chain.get_current_frame") = 1
        /\ Count(calls, "drop output_frame") = 1
        /\ Pos("drop output_frame") > Pos("queue.submit")
        /\ Pos("queue.submit") > Pos("swap_chain.get_current_frame")
    /\ ~Rendered => ~Made(calls, "drop output_frame")
    /\ \A i \in 1..Len(calls) :
           calls[i].op = "device.create_swap_chain" => calls[i].n = 0

C4_Witness ==
    /\ Rendered
    /\ Made(calls, "queue.submit")
    /\ calls[Len(calls)].op = "drop output_frame"
    /\ swap_chain.acquired = 0

\* C5: the target size given to egui_rpass.execute is the size the current
\* swap chain was created with, which is the size of the last Resized event
\* or, before any, the window's inner size at start-up.
C5_ExecuteTargetIsSwapChainSize ==
    Rendered =>
        /\ calls[Pos("egui_rpass.execute")].width = swap_chain.config.width
        /\ calls[Pos("egui_rpass.execute")].height = swap_chain.config.height
        /\ calls[Pos("egui_rpass.execute")].width = window.inner_size.width
        /\ calls[Pos("egui_rpass.execute")].height = window.inner_size.height

C5_Witness ==
    /\ Rendered
    /\ calls[Pos("egui_rpass.execute")].width = 2
    /\ calls[Pos("egui_rpass.execute")].height = 1

\* C6: only a Resized event changes the descriptor or the swap chain; the
\* handling of any other event leaves both as they were and creates no swap
\* chain; format, usage and present mode never change.
C6_OnlyResizedReconfigures ==
    [][ /\ ~IsResized' =>
            /\ sc_desc' = sc_desc
            /\ swap_chain' = swap_chain
            /\ ~Made(calls', "device.create_swap_chain")
        /\ sc_desc'.format = sc_desc.format
        /\ sc_desc'.usage = sc_desc.usage
        /\ sc_desc'.present_mode = sc_desc.present_mode
        /\ sc_desc'.format = OUTPUT_FORMAT
        /\ sc_desc'.usage = "OUTPUT_ATTACHMENT"
        /\ sc_desc'.present_mode = "Fifo" ]_vars

\* A frame was dropped after the window had been resized to 1x2.
C6_Witness ==
    /\ DroppedFrame
    /\ sc_desc.width = 1 /\ sc_desc.height = 2
    /\ swap_chain.config = sc_desc

\* C7: handling MainEventsCleared requests a redraw and sets the control flow
\* to Wait; every RedrawRequested attempts a frame; after a rendered frame
\* the control flow is Poll; and, the window system delivering a
\* RedrawRequested for each request, MainEventsCleared leads to a frame
\* attempt.
C7_RedrawLoop ==
    /\ [](/\ IsMainEventsCleared => window.redraw_requested /\ control_flow = "Wait"
          /\ IsRedraw => Made(calls, "swap_chain.get_current_frame")
          /\ Rendered => control_flow = "Poll" /\ Made(calls, "queue.submit"))
    /\ (IsMainEventsCleared ~> IsRedraw)

C7_Witness ==
    /\ IsMainEventsCleared
    /\ window.redraw_requested
    /\ control_flow = "Wait"
    /\ platform.time > 0

\* C8: a RedrawRequested whose frame acquisition fails only forwards the
\* event, updates the time and reports the error: no frame step after the
\* acquisition, no control-flow assignment; descriptor, swap chain and
\* control flow are as before.
C8_DroppedFrameChangesNothing ==
    [][ DroppedFrame' =>
            /\ Ops(calls') = << "platform.handle_event", "platform.update_time",
                                "swap_chain.get_current_frame", "eprintln" >>
            /\ control_flow' = control_flow
            /\ sc_desc' = sc_desc
            /\ swap_chain' = swap_chain
            /\ platform' = [platform EXCEPT !.last_event = event',
                                            !.time = calls'[2].t]
            /\ window'.inner_size = window.inner_size ]_vars

C8_Witness ==
    /\ DroppedFrame
    /\ control_flow = "Wait"
    /\ platform.time = 1

\* C9 as stated: after CloseRequested the control flow is Exit, no later
\* handling leaves a control flow other than Exit, and only CloseRequested
\* sets Exit.
C9_ExitIsKept ==
    [][ /\ IsClose' => control_flow' = "Exit"
        /\ control_flow = "Exit" => control_flow' = "Exit"
        /\ (control_flow # "Exit" /\ control_flow' = "Exit") => IsClose' ]_vars

\* C9 amended: handling CloseRequested leaves the control flow Exit and only
\* CloseRequested sets Exit; the closure does not keep it: the only later
\* handlings that overwrite Exit are MainEventsCleared (Wait) and a rendered
\* RedrawRequested (Poll).
C9_ExitSetOnlyByClose ==
    [][ /\ IsClose' => control_flow' = "Exit"
        /\ (control_flow # "Exit" /\ control_flow' = "Exit") => IsClose'
        /\ (control_flow = "Exit" /\ control_flow' # "Exit") =>
               \/ IsMainEventsCleared' /\ control_flow' = "Wait"
               \/ Rendered' /\ control_flow' = "Poll"
        /\ (control_flow = "Exit" /\ (IsMainEventsCleared' \/ Rendered')) =>
               control_flow' # "Exit" ]_vars

C9_Witness ==
    /\ IsClose
    /\ control_flow = "Exit"
    /\ Ops(calls) = << "platform.handle_event", "control_flow =" >>

\* C10 as stated: the swap chain always has a strictly positive width and
\* height, and create_swap_chain is never called with a zero width or height.
C10_SwapChainSizePositive ==
    /\ swap_chain.config.width > 0
    /\ swap_chain.config.height > 0
    /\ \A i \in 1..Len(calls) :
           calls[i].op = "device.create_swap_chain" =>
               calls[i].width > 0 /\ calls[i].height > 0

====
